---- MODULE Spec2Model ----
(***************************************************************************)
(* A model of three parts of the kubos repository:                         *)
(*   - the shell protocol's stdout message (libs/shell-protocol,            *)
(*     messages/stdout.rs): to_cbor, from_cbor and the CBOR encoding they   *)
(*     go through;                                                          *)
(*   - the U-Boot variable reader as exercised by                          *)
(*     apis/system-api/tests/test_boot_vars.rs;                             *)
(*   - the per-channel session state machine of the shell protocol.         *)
(* Text is modelled as a sequence of byte values (ASCII codes).             *)
(***************************************************************************)
EXTENDS Integers, Sequences, FiniteSets, TLC

\* ------------------------------------------------------------------- state

VARIABLES
    \* the stdout message codec
    cpc,      \* where the stdout message is: "idle", "encoded", "received", "decoded"
    sent,     \* the arguments of the last to_cbor call
    raw,      \* what to_cbor returned
    origin,   \* "wire": parsed was decoded from raw; "channel": handed over as is
    parsed,   \* the ChannelMessage in front of from_cbor
    result,   \* what from_cbor returned
    \* the boot variables
    environ,  \* the process environment: name -> Undefined or Defined(value)
    bpc,      \* "set": a variable was just changed; "str", "u32": a getter just returned
    bname,    \* the name given to the last getter
    bresult,  \* what the last getter returned
    \* the sessions
    sessions, \* channel -> Session
    outcome,  \* the last injected message: its channel, its variant and
              \* what the caller got
    \* the MAI-400 service's objects
    mpc,      \* "none"; "from": Mode::from(mraw) returned; "cast": so did
              \* Mode::from(mvariant as u8)
    mvariant, \* the Mode that was cast to u8
    mraw,     \* the byte given to Mode::from
    mmode,    \* the Mode it returned
    tpc,      \* "read": telemetry arrived; "a", "b": thermopile_struct_a or
              \* thermopile_struct_b was resolved
    telem,    \* the IREHSTelemetry the service holds
    tstruct   \* the ThermopileStruct last resolved

codecVars == <<cpc, sent, raw, origin, parsed, result>>

bootVars == <<environ, bpc, bname, bresult>>

sessionVars == <<sessions, outcome>>

modeVars == <<mpc, mvariant, mraw, mmode>>

irehsVars == <<tpc, telem, tstruct>>

vars == <<cpc, sent, raw, origin, parsed, result, environ, bpc, bname, bresult,
          sessions, outcome, mpc, mvariant, mraw, mmode, tpc, telem, tstruct>>

\* ------------------------------------------------------------------ bounds

\* Longest generated stdout text (the literal fixture is added on top).
MaxDataLen == 2

\* ------------------------------------------------------------ text helpers

\* All sequences over S of length at most n.
SeqsUpTo(S, n) == UNION {[1..k -> S] : k \in 0..n}

\* "stdout"
StdoutName == <<115, 116, 100, 111, 117, 116>>

\* "stdin", a different operation's name, for messages of another variant
StdinName == <<115, 116, 100, 105, 110>>

\* "hello world", the unit test's payload
HelloWorld == <<104, 101, 108, 108, 111, 32, 119, 111, 114, 108, 100>>

\* The error text of from_cbor.
NoStdoutData == "No stdout data found"

\* --------------------------------------------------------------- CBOR values

\* serde_cbor::Value, one record shape for every variant:
\* t is the variant, n the integer of U64, s the text of String or the bytes
\* of Bytes, items the elements of Array.
VU64(n) == [t |-> "U64", n |-> n, s |-> <<>>, items |-> <<>>]

VString(s) == [t |-> "String", n |-> 0, s |-> s, items |-> <<>>]

VBytes(s) == [t |-> "Bytes", n |-> 0, s |-> s, items |-> <<>>]

VNull == [t |-> "Null", n |-> 0, s |-> <<>>, items |-> <<>>]

VArray(items) == [t |-> "Array", n |-> 0, s |-> <<>>, items |-> items]

\* Option<&str>
None == [some |-> FALSE, s |-> <<>>]

Some(s) == [some |-> TRUE, s |-> s]

\* ------------------------------------------------------------ CBOR encoding

\* The big-endian bytes of n, k of them.
RECURSIVE BigEndian(_, _)
BigEndian(n, k) ==
    IF k = 0 THEN <<>> ELSE Append(BigEndian(n \div 256, k - 1), n % 256)

\* A CBOR data item head: major type in the top three bits, then the
\* argument in the shortest form.  The arguments here are u32 values and
\* lengths, so the eight-byte form is never written.
EncHead(major, n) ==
    IF n < 24 THEN <<major * 32 + n>>
    ELSE IF n < 256 THEN <<major * 32 + 24>> \o BigEndian(n, 1)
    ELSE IF n < 65536 THEN <<major * 32 + 25>> \o BigEndian(n, 2)
    ELSE <<major * 32 + 26>> \o BigEndian(n, 4)

\* serialize_u32: major type 0.
EncU32(n) == EncHead(0, n)

\* serialize_str: major type 3 (text string), then the UTF-8 bytes.
EncStr(s) == EncHead(3, Len(s)) \o s

\* A variant of EncOptStr: the payload written as a byte string (major type 2).
EncOptStrBytes(d) == IF d.some THEN EncHead(2, Len(d.s)) \o d.s ELSE <<246>>

\* serialize_none is CBOR null (0xf6); serialize_some writes the value itself.
EncOptStr(d) == IF d.some THEN EncStr(d.s) ELSE <<246>>

\* A variant of ToVecPacked: the operation name ahead of the channel id.
ToVecPackedNameFirst(channel_id, name, data) ==
    [ok |-> TRUE,
     bytes |-> EncHead(4, 3) \o EncStr(name) \o EncU32(channel_id) \o EncOptStr(data)]

\* A variant of ToVecPacked: an encoder that refuses an absent payload.
ToVecPackedNoNone(channel_id, name, data) ==
    IF data.some
    THEN [ok |-> TRUE,
          bytes |-> EncHead(4, 3) \o EncU32(channel_id) \o EncStr(name) \o EncStr(data.s)]
    ELSE [ok |-> FALSE, bytes |-> <<>>]

\* ser::to_vec_packed of the tuple (channel_id, "stdout", data): a definite
\* array of three items.  Writing these types into a Vec cannot fail.
ToVecPacked(channel_id, name, data) ==
    [ok |-> TRUE,
     bytes |-> EncHead(4, 3) \o EncU32(channel_id) \o EncStr(name) \o EncOptStr(data)]

\* ------------------------------------------------------------ CBOR decoding

Drop(s, k) == SubSeq(s, k + 1, Len(s))

RECURSIVE FromBigEndian(_)
FromBigEndian(bs) ==
    IF bs = <<>> THEN 0
    ELSE FromBigEndian(SubSeq(bs, 1, Len(bs) - 1)) * 256 + bs[Len(bs)]

\* Reads one head: [ok, major, info, arg, rest].
DecHead(bs) ==
    IF bs = <<>> THEN [ok |-> FALSE, major |-> 0, info |-> 0, arg |-> 0, rest |-> <<>>]
    ELSE LET b == bs[1]
             major == b \div 32
             info == b % 32
             k == IF info = 24 THEN 1 ELSE IF info = 25 THEN 2
                  ELSE IF info = 26 THEN 4 ELSE IF info = 27 THEN 8 ELSE 0
         IN IF info < 24
            THEN [ok |-> TRUE, major |-> major, info |-> info, arg |-> info,
                  rest |-> Drop(bs, 1)]
            ELSE IF info > 27 \/ Len(bs) < 1 + k
            THEN [ok |-> FALSE, major |-> major, info |-> info, arg |-> 0,
                  rest |-> <<>>]
            ELSE [ok |-> TRUE, major |-> major, info |-> info,
                  arg |-> FromBigEndian(SubSeq(bs, 2, 1 + k)),
                  rest |-> Drop(bs, 1 + k)]

DecFail == [ok |-> FALSE, val |-> VNull, rest |-> <<>>]

\* Reads one data item: [ok, val, rest].  Unsigned integers, byte strings,
\* text strings, definite arrays and null are the items the protocol uses.
RECURSIVE DecItem(_)
RECURSIVE DecItems(_, _)
DecItem(bs) ==
    LET h == DecHead(bs) IN
    IF ~h.ok THEN DecFail
    ELSE IF h.major = 0 THEN [ok |-> TRUE, val |-> VU64(h.arg), rest |-> h.rest]
    ELSE IF h.major \in {2, 3} THEN
        IF Len(h.rest) < h.arg THEN DecFail
        ELSE [ok |-> TRUE,
              val |-> IF h.major = 3 THEN VString(SubSeq(h.rest, 1, h.arg))
                      ELSE VBytes(SubSeq(h.rest, 1, h.arg)),
              rest |-> Drop(h.rest, h.arg)]
    ELSE IF h.major = 4 THEN
        LET r == DecItems(h.rest, h.arg) IN
        IF ~r.ok THEN DecFail
        ELSE [ok |-> TRUE, val |-> VArray(r.vals), rest |-> r.rest]
    ELSE IF h.major = 7 /\ h.info = 22 THEN [ok |-> TRUE, val |-> VNull, rest |-> h.rest]
    ELSE DecFail

\* Reads k items in a row: [ok, vals, rest].
DecItems(bs, k) ==
    IF k = 0 THEN [ok |-> TRUE, vals |-> <<>>, rest |-> bs]
    ELSE LET first == DecItem(bs) IN
         IF ~first.ok THEN [ok |-> FALSE, vals |-> <<>>, rest |-> <<>>]
         ELSE LET more == DecItems(first.rest, k - 1) IN
              IF ~more.ok THEN [ok |-> FALSE, vals |-> <<>>, rest |-> <<>>]
              ELSE [ok |-> TRUE, vals |-> <<first.val>> \o more.vals,
                    rest |-> more.rest]

\* de::from_slice: one item, and nothing after it.
DeFromSlice(bs) ==
    LET r == DecItem(bs) IN
    IF r.ok /\ r.rest = <<>> THEN [ok |-> TRUE, val |-> r.val]
    ELSE [ok |-> FALSE, val |-> VNull]

\* ------------------------------------------------------- stdout.rs messages

\* ProtocolError::MessageCreationError { message, err } of to_cbor's map_err.
MessageCreationError(message) ==
    [ok |-> FALSE, bytes |-> <<>>, kind |-> "MessageCreationError", message |-> message]

\* The Result to_cbor builds from the encoder's: Ok(bytes), or the encoder's
\* error wrapped with the variant name.
MapErr(r) ==
    IF r.ok THEN [ok |-> TRUE, bytes |-> r.bytes, kind |-> "Ok", message |-> ""]
    ELSE MessageCreationError("stdout")

\* Stdout -> CBOR
to_cbor(channel_id, data) == MapErr(ToVecPacked(channel_id, StdoutName, data))

\* channel_protocol::ChannelMessage
ChannelMessage(channel_id, name, payload) ==
    [channel_id |-> channel_id, name |-> name, payload |-> payload]

\* channel_protocol::parse_message: the outer envelope, an array of a channel
\* id, an operation name and the remaining fields, down to a ChannelMessage.
parse_message(value) ==
    IF /\ value.t = "Array"
       /\ Len(value.items) >= 2
       /\ value.items[1].t = "U64"
       /\ value.items[2].t = "String"
    THEN [ok |-> TRUE,
          msg |-> ChannelMessage(value.items[1].n, value.items[2].s,
                                 Drop(value.items, 2))]
    ELSE [ok |-> FALSE, msg |-> ChannelMessage(0, <<>>, <<>>)]

\* Message::Stdout { channel_id, data }
MessageStdout(channel_id, data) ==
    [ok |-> TRUE, kind |-> "Stdout", channel_id |-> channel_id, data |-> data,
     err |-> ""]

\* ProtocolError::MessageParseError { err }
MessageParseError(err) ==
    [ok |-> FALSE, kind |-> "MessageParseError", channel_id |-> 0, data |-> <<>>,
     err |-> err]

\* A variant of from_cbor: anything but a text decodes as empty data.
from_cbor_default(message) ==
    IF Len(message.payload) >= 1 /\ message.payload[1].t = "String"
    THEN MessageStdout(message.channel_id, message.payload[1].s)
    ELSE MessageStdout(message.channel_id, <<>>)

\* A variant of from_cbor: a byte string is taken for the text.
from_cbor_bytes(message) ==
    IF Len(message.payload) >= 1 /\ message.payload[1].t \in {"String", "Bytes"}
    THEN MessageStdout(message.channel_id, message.payload[1].s)
    ELSE MessageParseError(NoStdoutData)

\* A variant of from_cbor: the error text says what was found.
from_cbor_found(message) ==
    IF Len(message.payload) >= 1 /\ message.payload[1].t = "String"
    THEN MessageStdout(message.channel_id, message.payload[1].s)
    ELSE MessageParseError(IF message.payload = <<>> THEN "No stdout data found: nothing"
                           ELSE "No stdout data found: " \o message.payload[1].t)

\* A variant of from_cbor: the unit test's channel id instead of the message's.
from_cbor_channel_13(message) ==
    IF Len(message.payload) >= 1 /\ message.payload[1].t = "String"
    THEN MessageStdout(13, message.payload[1].s)
    ELSE MessageParseError(NoStdoutData)

\* CBOR -> Message::Stdout
from_cbor(message) ==
    IF Len(message.payload) >= 1 /\ message.payload[1].t = "String"
    THEN MessageStdout(message.channel_id, message.payload[1].s)
    ELSE MessageParseError(NoStdoutData)

\* ------------------------------------------------------------ codec inputs

\* Channel ids, around every change of the integer's encoded width.  The
\* largest is 2^31 - 1, the largest integer the model checker holds; like
\* u32::MAX it takes the four-byte form.
ChannelIds == {0, 5, 13, 23, 24, 255, 256, 65535, 65536, 2147483647}

DataChars == {97, 10}

\* The payloads given to to_cbor: absent, every short text, the fixture.
DataInputs ==
    {None} \cup {Some(s) : s \in SeqsUpTo(DataChars, MaxDataLen)} \cup {Some(HelloWorld)}

\* Payloads a channel message can carry in front of from_cbor.
Payloads ==
    {<<>>, <<VNull>>, <<VU64(7)>>, <<VBytes(<<97>>)>>, <<VArray(<<VString(<<97>>)>>)>>,
     <<VString(<<>>)>>, <<VString(<<97>>)>>, <<VString(<<97>>), VU64(1)>>,
     <<VNull, VString(<<97>>)>>, <<VU64(1), VString(<<97>>)>>}

\* Messages handed over by the channel layer.
ChannelMessages ==
    {ChannelMessage(c, n, p) : c \in {5, 13}, n \in {StdoutName, StdinName},
                               p \in Payloads}

\* ------------------------------------------------------------- codec state


NoSent == [channel_id |-> 0, data |-> None]

NoRaw == [ok |-> FALSE, bytes |-> <<>>, kind |-> "None", message |-> ""]

NoParsed == ChannelMessage(0, <<>>, <<>>)

NoResult == [ok |-> FALSE, kind |-> "None", channel_id |-> 0, data |-> <<>>, err |-> ""]

CodecInit ==
    /\ cpc = "idle"
    /\ sent = NoSent
    /\ raw = NoRaw
    /\ origin = "none"
    /\ parsed = NoParsed
    /\ result = NoResult

\* The sender builds a stdout message: to_cbor(channel_id, data).
ToCbor(channel_id, data) ==
    /\ cpc = "idle"
    /\ sent' = [channel_id |-> channel_id, data |-> data]
    /\ raw' = to_cbor(channel_id, data)
    /\ cpc' = "encoded"
    /\ UNCHANGED <<origin, parsed, result>>
    /\ UNCHANGED <<bootVars, sessionVars, modeVars, irehsVars>>

\* The receiver decodes the envelope: parse_message(de::from_slice(&raw)),
\* as the unit test does (both unwrapped: a failure stops there).
ParseMessage ==
    /\ cpc = "encoded"
    /\ raw.ok
    /\ LET v == DeFromSlice(raw.bytes) IN
       /\ v.ok
       /\ parse_message(v.val).ok
       /\ parsed' = parse_message(v.val).msg
    /\ origin' = "wire"
    /\ cpc' = "received"
    /\ UNCHANGED <<sent, raw, result>>
    /\ UNCHANGED <<bootVars, sessionVars, modeVars, irehsVars>>

\* The channel layer hands over a message of any shape.
Receive(message) ==
    /\ cpc = "idle"
    /\ parsed' = message
    /\ origin' = "channel"
    /\ cpc' = "received"
    /\ UNCHANGED <<sent, raw, result>>
    /\ UNCHANGED <<bootVars, sessionVars, modeVars, irehsVars>>

\* from_cbor(&parsed)
FromCbor ==
    /\ cpc = "received"
    /\ result' = from_cbor(parsed)
    /\ cpc' = "decoded"
    /\ UNCHANGED <<sent, raw, origin, parsed>>
    /\ UNCHANGED <<bootVars, sessionVars, modeVars, irehsVars>>

\* The next message starts from scratch.
NextMessage ==
    /\ cpc = "decoded"
    /\ cpc' = "idle"
    /\ sent' = NoSent
    /\ raw' = NoRaw
    /\ origin' = "none"
    /\ parsed' = NoParsed
    /\ result' = NoResult
    /\ UNCHANGED <<bootVars, sessionVars, modeVars, irehsVars>>

CodecNext ==
    \/ \E c \in ChannelIds, d \in DataInputs : ToCbor(c, d)
    \/ ParseMessage
    \/ \E m \in ChannelMessages : Receive(m)
    \/ FromCbor
    \/ NextMessage

\* ------------------------------------------------------- boot variables

\* Longest generated value of an environment variable.
MaxValueLen == 2

\* '1', 'a' and the space.  No glob character and no leading '-', so the
\* helper's echo neither expands a pattern nor takes a word for an option.
BootChars == {49, 97, 32}

\* "123", "abc", "1.23": the values the tests set.
Fixture123 == <<49, 50, 51>>

FixtureAbc == <<97, 98, 99>>

Fixture1p23 == <<49, 46, 50, 51>>

\* "4294967295" and "4294967296": u32::MAX and one more.
U32MaxText == <<52, 50, 57, 52, 57, 54, 55, 50, 57, 53>>

U32OverText == <<52, 50, 57, 52, 57, 54, 55, 50, 57, 54>>

BootValues ==
    SeqsUpTo(BootChars, MaxValueLen)
        \cup {Fixture123, FixtureAbc, Fixture1p23, U32MaxText, U32OverText}

\* The variables the tests read.
BootNames == {"count", "currv"}

\* A variable of the process environment: undefined, or defined with a value.
Undefined == [def |-> FALSE, s |-> <<>>]

Defined(s) == [def |-> TRUE, s |-> s]

IsBlank(c) == c \in {32, 9, 10}

\* The shell's word splitting of an unquoted expansion: the words between
\* runs of blanks.
RECURSIVE Words(_, _)
Words(s, word) ==
    IF s = <<>> THEN (IF word = <<>> THEN <<>> ELSE <<word>>)
    ELSE IF IsBlank(Head(s))
         THEN (IF word = <<>> THEN <<>> ELSE <<word>>) \o Words(Tail(s), <<>>)
         ELSE Words(Tail(s), Append(word, Head(s)))

\* echo's arguments joined by single spaces.
RECURSIVE JoinWords(_)
JoinWords(ws) ==
    IF ws = <<>> THEN <<>>
    ELSE IF Len(ws) = 1 THEN ws[1]
    ELSE ws[1] \o <<32>> \o JoinWords(Tail(ws))

\* DUMMY_PRINTENV, run as `dummy-printenv -n name`: exit status 1 when the
\* variable is not set, else `echo ${!VAR}` (unquoted) and exit status 0.
DummyPrintenv(env, name) ==
    IF ~env[name].def THEN [status |-> 1, stdout |-> <<>>]
    ELSE [status |-> 0, stdout |-> JoinWords(Words(env[name].s, <<>>)) \o <<10>>]

\* The text without its line ends.
RECURSIVE TrimLineEnd(_)
TrimLineEnd(s) ==
    IF s # <<>> /\ s[Len(s)] = 10 THEN TrimLineEnd(SubSeq(s, 1, Len(s) - 1)) ELSE s

\* Option<String> and Option<u32>.  A u32 is held as its decimal digits
\* without leading zeros (u32::MAX is beyond the model checker's integers).
NoStr == [some |-> FALSE, s |-> <<>>, n |-> <<>>]

SomeStr(s) == [some |-> TRUE, s |-> s, n |-> <<>>]

SomeU32(n) == [some |-> TRUE, s |-> <<>>, n |-> n]

\* UBootVars::get_str: the helper's output when it succeeds.
get_str(env, name) ==
    LET out == DummyPrintenv(env, name) IN
    IF out.status # 0 THEN NoStr ELSE SomeStr(TrimLineEnd(out.stdout))

IsDigit(c) == c \in 48..57

\* The digits of a number without its leading zeros ("0" for zero).
RECURSIVE Canonical(_)
Canonical(s) ==
    IF Len(s) > 1 /\ s[1] = 48 THEN Canonical(Tail(s)) ELSE s

\* a <= b for two digit texts of the same length.
RECURSIVE DigitsLeq(_, _)
DigitsLeq(a, b) ==
    IF a = <<>> THEN TRUE
    ELSE IF a[1] # b[1] THEN a[1] < b[1]
    ELSE DigitsLeq(Tail(a), Tail(b))

\* The text of an unsigned 32-bit integer: digits, within u32's range.
IsDecimalU32(s) ==
    /\ s # <<>>
    /\ \A i \in 1..Len(s) : IsDigit(s[i])
    /\ \/ Len(Canonical(s)) < Len(U32MaxText)
       \/ /\ Len(Canonical(s)) = Len(U32MaxText)
          /\ DigitsLeq(Canonical(s), U32MaxText)

\* UBootVars::get_u32: the string, parsed.
get_u32(env, name) ==
    LET v == get_str(env, name) IN
    IF v.some /\ IsDecimalU32(v.s) THEN SomeU32(Canonical(v.s)) ELSE NoStr


BootInit ==
    /\ environ = [n \in BootNames |-> Undefined]
    /\ bpc = "set"
    /\ bname = "count"
    /\ bresult = NoStr

\* env::set_var(name, value)
SetVar(name, value) ==
    /\ environ' = [environ EXCEPT ![name] = Defined(value)]
    /\ bpc' = "set"
    /\ UNCHANGED <<bname, bresult>>
    /\ UNCHANGED <<codecVars, sessionVars, modeVars, irehsVars>>

\* vars.get_str(name)
GetStr(name) ==
    /\ bname' = name
    /\ bresult' = get_str(environ, name)
    /\ bpc' = "str"
    /\ UNCHANGED environ
    /\ UNCHANGED <<codecVars, sessionVars, modeVars, irehsVars>>

\* vars.get_u32(name)
GetU32(name) ==
    /\ bname' = name
    /\ bresult' = get_u32(environ, name)
    /\ bpc' = "u32"
    /\ UNCHANGED environ
    /\ UNCHANGED <<codecVars, sessionVars, modeVars, irehsVars>>

BootNext ==
    \/ \E n \in BootNames, v \in BootValues : SetVar(n, v)
    \/ \E n \in BootNames : GetStr(n)
    \/ \E n \in BootNames : GetU32(n)

\* ------------------------------------------------- session state machine

\* Most chunks a session buffers for its caller, and most bytes it takes.
MaxBuffer == 1

\* The flags a ThermopileFlags value can raise.
MaxFlags == 2

\* The channels of the shared transport.
Channels == {5, 13}

\* Stream and file data: an empty chunk or one byte.
Chunks == {<<>>, <<97>>}

SpawnClass == {"Spawn", "ExportRequest", "ImportRequest"}

DataClass == {"Stdin", "Stdout", "Stderr", "FileChunk"}

\* A content hash of the bytes received so far, kept as a running sum.
ChecksumAdd(sum, data) ==
    IF data = <<>> THEN sum ELSE (sum * 31 + data[1]) % 256

\* Message: the variant, and the fields of FileChunk and FileComplete.
Msg(kind, offset, data, checksum) ==
    [kind |-> kind, offset |-> offset, data |-> data, checksum |-> checksum]

Messages ==
    {Msg(k, 0, <<>>, 0) : k \in SpawnClass \cup {"Eof", "Error", "Ack"}}
        \cup {Msg(k, 0, d, 0) : k \in {"Stdin", "Stdout", "Stderr"}, d \in Chunks}
        \cup {Msg("FileChunk", o, d, 0) : o \in 0..1, d \in Chunks}
        \cup {Msg("FileComplete", 0, <<>>, s) : s \in {0, 97}}

\* The operation a spawn-class message opens.
OperationOf(kind) ==
    IF kind = "Spawn" THEN "shell"
    ELSE IF kind = "ImportRequest" THEN "import" ELSE "export"

\* Session: status, the operation, the byte offset reached, the running
\* checksum and the chunks not yet read by the caller.
Session(status, op, offset, sum, buffer) ==
    [status |-> status, op |-> op, offset |-> offset, sum |-> sum, buffer |-> buffer]

NewSession == Session("AwaitingSpawn", "none", 0, 0, <<>>)

\* Entering Closed releases the buffers.
Close(s) == [s EXCEPT !.status = "Closed", !.buffer = <<>>]

\* A variant of Step: a spawn-class message reopens a closed session.
StepReopen(s, m) ==
    IF m.kind \in SpawnClass /\ s.status \in {"AwaitingSpawn", "Closed"}
    THEN [session |-> [s EXCEPT !.status = "Running", !.op = OperationOf(m.kind)],
          result |-> "Ok"]
    ELSE IF s.status = "Closed"
    THEN [session |-> s, result |-> "ProtocolStateError"]
    ELSE [session |-> Close(s), result |-> "ProtocolStateError"]

\* A variant of Step: a spawn-class message that does not open the session
\* closes it, like every other message out of place.
StepSpawnCloses(s, m) ==
    IF s.status = "Closed"
    THEN [session |-> s, result |-> "ProtocolStateError"]
    ELSE IF m.kind \in SpawnClass /\ s.status = "AwaitingSpawn"
    THEN [session |-> [s EXCEPT !.status = "Running", !.op = OperationOf(m.kind)],
          result |-> "Ok"]
    ELSE [session |-> Close(s), result |-> "ProtocolStateError"]

\* One message through a session's state machine: [session, result].
\* A closed session refuses everything and stays as it is.  A spawn-class
\* message opens a session that awaits it and is refused, the state left
\* alone, anywhere else (4.3, the transitions).  Any other message out of
\* place, an out-of-order file chunk or a wrong checksum closes the session
\* with a typed error (4.3, failure semantics); Error closes it at once and
\* Ack changes nothing.
Step(s, m) ==
    IF s.status = "Closed"
    THEN [session |-> s, result |-> "ProtocolStateError"]
    ELSE IF m.kind \in SpawnClass
    THEN IF s.status = "AwaitingSpawn"
         THEN [session |-> [s EXCEPT !.status = "Running", !.op = OperationOf(m.kind)],
               result |-> "Ok"]
         ELSE [session |-> s, result |-> "ProtocolStateError"]
    ELSE IF s.status = "AwaitingSpawn"
    THEN [session |-> Close(s), result |-> "ProtocolStateError"]
    ELSE IF m.kind = "Error"
    THEN [session |-> Close(s), result |-> "Error"]
    ELSE IF m.kind = "Ack"
    THEN [session |-> s, result |-> "Ok"]
    ELSE IF s.status = "Draining"
    THEN [session |-> Close(s), result |-> "ProtocolStateError"]
    ELSE IF m.kind \in DataClass
    THEN IF m.kind = "FileChunk" /\ m.offset # s.offset
         THEN [session |-> Close(s), result |-> "ProtocolStateError"]
         ELSE [session |-> [s EXCEPT !.offset = @ + Len(m.data),
                                      !.sum = ChecksumAdd(@, m.data),
                                      !.buffer = Append(@, m.data)],
               result |-> "Ok"]
    ELSE IF m.kind = "FileComplete" /\ m.checksum # s.sum
    THEN [session |-> Close(s), result |-> "ChecksumMismatchError"]
    ELSE [session |-> [s EXCEPT !.status = "Draining"], result |-> "Ok"]


SessionInit ==
    /\ sessions = [c \in Channels |-> NewSession]
    /\ outcome = [channel |-> 0, kind |-> "none", result |-> "none"]

\* Message m goes through the state machine of channel c's session, and of
\* no other.  A data message waits while the session's buffer is full
\* (backpressure).
Apply(c, m) ==
    /\ \/ sessions[c].status # "Running"
       \/ m.kind \notin DataClass
       \/ /\ Len(sessions[c].buffer) < MaxBuffer
          /\ sessions[c].offset + Len(m.data) <= MaxBuffer
    /\ sessions' = [sessions EXCEPT ![c] = Step(@, m).session]
    /\ outcome' = [channel |-> c, kind |-> m.kind,
                   result |-> Step(sessions[c], m).result]

\* A message arrives on channel c.
Inject(c, m) ==
    /\ Apply(c, m)
    /\ UNCHANGED <<codecVars, bootVars, modeVars, irehsVars>>

\* The caller reads the next buffered chunk; a draining session with
\* nothing left to read is closed.
CallerRead(c) ==
    /\ sessions[c].status \in {"Running", "Draining"}
    /\ sessions[c].status = "Running" => sessions[c].buffer # <<>>
    /\ LET rest == IF sessions[c].buffer = <<>> THEN <<>> ELSE Tail(sessions[c].buffer)
       IN sessions' = [sessions EXCEPT ![c] =
              IF @.status = "Draining" /\ rest = <<>>
              THEN Close(@)
              ELSE [@ EXCEPT !.buffer = rest]]
    /\ UNCHANGED outcome
    /\ UNCHANGED <<codecVars, bootVars, modeVars, irehsVars>>

SessionNext ==
    \/ \E c \in Channels, m \in Messages : Inject(c, m)
    \/ \E c \in Channels : CallerRead(c)

\* ------------------------------------------------------------------ driver

\* The stdout payloads sent through the driver: absent, empty, one byte.
DriverData == {None, Some(<<>>), Some(<<97>>)}

\* The messages the driver's sessions get besides the decoded stdout.
ControlMessages == {Msg(k, 0, <<>>, 0) : k \in {"Spawn", "Eof", "Error"}}

\* The driver's receive path: the Stdout that from_cbor returned is fed to
\* the session of the channel id it carries, and the codec is free again.
Deliver ==
    /\ cpc = "decoded"
    /\ result.ok
    /\ result.channel_id \in Channels
    /\ Apply(result.channel_id, Msg("Stdout", 0, result.data, 0))
    /\ cpc' = "idle"
    /\ sent' = NoSent
    /\ raw' = NoRaw
    /\ origin' = "none"
    /\ parsed' = NoParsed
    /\ result' = NoResult
    /\ UNCHANGED <<bootVars, modeVars, irehsVars>>

\* Stdout messages sent on either channel and decoded by the receiver (or
\* dropped: NextMessage), interleaved with control messages and reads.
DriverNext ==
    \/ \E c \in Channels, d \in DriverData : ToCbor(c, d)
    \/ ParseMessage
    \/ FromCbor
    \/ Deliver
    \/ NextMessage
    \/ \E c \in Channels, m \in ControlMessages : Inject(c, m)
    \/ \E c \in Channels : CallerRead(c)

\* -------------------------------------------------------- objects.rs: Mode

\* enum Mode: each variant with its declared discriminant.
ModeDiscriminants ==
    [TestMode |-> 0, RateNulling |-> 1, Reserved1 |-> 2, NadirPointing |-> 3,
     LatLongPointing |-> 4, QbxMode |-> 5, Reserved2 |-> 6, NormalSun |-> 7,
     LatLongSun |-> 8, Qintertial |-> 9, Reserved3 |-> 10, Qtable |-> 11,
     SunRam |-> 12, Unknown |-> 255]

ModeVariants == DOMAIN ModeDiscriminants

\* `mode as u8`
ModeAsU8(mode) == ModeDiscriminants[mode]

\* u8
Bytes == 0..255

\* A variant of ModeFrom: the arms of 9 and 10 the wrong way round.
ModeFromSwapped(byte) ==
    CASE byte = 0 -> "TestMode"
      [] byte = 1 -> "RateNulling"
      [] byte = 2 -> "Reserved1"
      [] byte = 3 -> "NadirPointing"
      [] byte = 4 -> "LatLongPointing"
      [] byte = 5 -> "QbxMode"
      [] byte = 6 -> "Reserved2"
      [] byte = 7 -> "NormalSun"
      [] byte = 8 -> "LatLongSun"
      [] byte = 9 -> "Reserved3"
      [] byte = 10 -> "Qintertial"
      [] byte = 11 -> "Qtable"
      [] byte = 12 -> "SunRam"
      [] OTHER -> "Unknown"

\* impl From<u8> for Mode
ModeFrom(byte) ==
    CASE byte = 0 -> "TestMode"
      [] byte = 1 -> "RateNulling"
      [] byte = 2 -> "Reserved1"
      [] byte = 3 -> "NadirPointing"
      [] byte = 4 -> "LatLongPointing"
      [] byte = 5 -> "QbxMode"
      [] byte = 6 -> "Reserved2"
      [] byte = 7 -> "NormalSun"
      [] byte = 8 -> "LatLongSun"
      [] byte = 9 -> "Qintertial"
      [] byte = 10 -> "Reserved3"
      [] byte = 11 -> "Qtable"
      [] byte = 12 -> "SunRam"
      [] OTHER -> "Unknown"

ModeInit ==
    /\ mpc = "none"
    /\ mvariant = "Unknown"
    /\ mraw = 0
    /\ mmode = "Unknown"

\* Mode::from(byte)
FromU8(byte) ==
    /\ mraw' = byte
    /\ mmode' = ModeFrom(byte)
    /\ mpc' = "from"
    /\ UNCHANGED mvariant
    /\ UNCHANGED <<codecVars, bootVars, sessionVars, irehsVars>>

\* Mode::from(mode as u8)
CastAndBack(mode) ==
    /\ mvariant' = mode
    /\ mraw' = ModeAsU8(mode)
    /\ mmode' = ModeFrom(ModeAsU8(mode))
    /\ mpc' = "cast"
    /\ UNCHANGED <<codecVars, bootVars, sessionVars, irehsVars>>

ModeNext ==
    \/ \E byte \in Bytes : FromU8(byte)
    \/ \E mode \in ModeVariants : CastAndBack(mode)

\* ------------------------------------------------- objects.rs: IREHSTelem

\* A fixed-size array, indexed from 0 as in the source.
Array4(a, b, c, d) == [i \in 0..3 |-> <<a, b, c, d>>[i + 1]]

\* `x as i32`, on readings that fit an i32.
AsI32(x) == x

\* A ThermopileFlags value is the set of the flags that are raised; a flag is
\* named by its number.
ThermopileFlags == SUBSET (1..MaxFlags)

\* ThermopileFlags::is_empty
IsEmpty(f) == f = {}

\* ThermopileFlags::to_vec: the raised flags, one entry each.
ToVec(f) ==
    [k \in 1..Cardinality(f) |->
        CHOOSE x \in f : Cardinality({y \in f : y < x}) = k - 1]

\* The readings a telemetry frame may carry: every entry of an array differs
\* from the others, and the two arrays share no entry.
Readings == {Array4(1, 2, 3, 4), Array4(8, 7, 6, 5)}

DipAngles == {<<0, 1>>, <<1, 0>>}

\* solution_degraded: one or two of the eight entries raise flags.
Degradations ==
    {[i \in 0..7 |-> IF i = p THEN f ELSE IF i = q THEN g ELSE {}] :
        p \in 0..7, q \in 0..7, f \in ThermopileFlags, g \in ThermopileFlags}

\* IREHSTelemetry
Telemetries ==
    {[thermopiles_a |-> ta, thermopiles_b |-> tb, temp_a |-> pa, temp_b |-> pb,
      dip_angle_a |-> dip[1], dip_angle_b |-> dip[2], solution_degraded |-> sd] :
        ta \in Readings, tb \in Readings, pa \in Readings, pb \in Readings,
        dip \in DipAngles, sd \in Degradations}

\* IREHSTelem::default()
DefaultTelemetry ==
    [thermopiles_a |-> Array4(0, 0, 0, 0), thermopiles_b |-> Array4(0, 0, 0, 0),
     temp_a |-> Array4(0, 0, 0, 0), temp_b |-> Array4(0, 0, 0, 0),
     dip_angle_a |-> 0, dip_angle_b |-> 0,
     solution_degraded |-> [i \in 0..7 |-> {}]]

\* struct ThermopileSensor
ThermopileSensor(adc, temp, errors, flags) ==
    [adc |-> adc, temp |-> temp, errors |-> errors, flags |-> flags]

\* struct ThermopileStruct
ThermopileStruct(dip_angle, earth_limb, earth_ref, space_ref, wide_fov) ==
    [dip_angle |-> dip_angle, earth_limb |-> earth_limb,
     earth_ref |-> earth_ref, space_ref |-> space_ref, wide_fov |-> wide_fov]

NoStruct ==
    ThermopileStruct(0, ThermopileSensor(0, 0, FALSE, <<>>),
                     ThermopileSensor(0, 0, FALSE, <<>>),
                     ThermopileSensor(0, 0, FALSE, <<>>),
                     ThermopileSensor(0, 0, FALSE, <<>>))

\* field thermopile_struct_a()
thermopile_struct_a(self) ==
    ThermopileStruct(
        AsI32(self.dip_angle_a),
        ThermopileSensor(AsI32(self.thermopiles_a[0]), AsI32(self.temp_a[0]),
                         ~IsEmpty(self.solution_degraded[0]),
                         ToVec(self.solution_degraded[0])),
        ThermopileSensor(AsI32(self.thermopiles_a[1]), AsI32(self.temp_a[1]),
                         ~IsEmpty(self.solution_degraded[1]),
                         ToVec(self.solution_degraded[1])),
        ThermopileSensor(AsI32(self.thermopiles_a[2]), AsI32(self.temp_a[2]),
                         ~IsEmpty(self.solution_degraded[2]),
                         ToVec(self.solution_degraded[2])),
        ThermopileSensor(AsI32(self.thermopiles_a[3]), AsI32(self.temp_a[3]),
                         ~IsEmpty(self.solution_degraded[3]),
                         ToVec(self.solution_degraded[3])))

\* A variant of thermopile_struct_b: the flags of structure A copied over.
thermopile_struct_b_flags_of_a(self) ==
    ThermopileStruct(
        AsI32(self.dip_angle_b),
        ThermopileSensor(AsI32(self.thermopiles_b[0]), AsI32(self.temp_b[0]),
                         ~IsEmpty(self.solution_degraded[0]),
                         ToVec(self.solution_degraded[0])),
        ThermopileSensor(AsI32(self.thermopiles_b[1]), AsI32(self.temp_b[1]),
                         ~IsEmpty(self.solution_degraded[1]),
                         ToVec(self.solution_degraded[1])),
        ThermopileSensor(AsI32(self.thermopiles_b[2]), AsI32(self.temp_b[2]),
                         ~IsEmpty(self.solution_degraded[2]),
                         ToVec(self.solution_degraded[2])),
        ThermopileSensor(AsI32(self.thermopiles_b[3]), AsI32(self.temp_b[3]),
                         ~IsEmpty(self.solution_degraded[3]),
                         ToVec(self.solution_degraded[3])))

\* field thermopile_struct_b()
thermopile_struct_b(self) ==
    ThermopileStruct(
        AsI32(self.dip_angle_b),
        ThermopileSensor(AsI32(self.thermopiles_b[0]), AsI32(self.temp_b[0]),
                         ~IsEmpty(self.solution_degraded[4]),
                         ToVec(self.solution_degraded[4])),
        ThermopileSensor(AsI32(self.thermopiles_b[1]), AsI32(self.temp_b[1]),
                         ~IsEmpty(self.solution_degraded[5]),
                         ToVec(self.solution_degraded[5])),
        ThermopileSensor(AsI32(self.thermopiles_b[2]), AsI32(self.temp_b[2]),
                         ~IsEmpty(self.solution_degraded[6]),
                         ToVec(self.solution_degraded[6])),
        ThermopileSensor(AsI32(self.thermopiles_b[3]), AsI32(self.temp_b[3]),
                         ~IsEmpty(self.solution_degraded[7]),
                         ToVec(self.solution_degraded[7])))

IrehsInit ==
    /\ tpc = "idle"
    /\ telem = DefaultTelemetry
    /\ tstruct = NoStruct

\* A telemetry(telem: DEBUG) query starts: the service holds a frame.
ReadTelemetry(t) ==
    /\ tpc = "idle"
    /\ tpc' = "read"
    /\ telem' = t
    /\ UNCHANGED tstruct
    /\ UNCHANGED <<codecVars, bootVars, sessionVars, modeVars>>

\* The query resolves thermopileStructA.
ResolveStructA ==
    /\ tpc \in {"read", "b"}
    /\ tpc' = "a"
    /\ tstruct' = thermopile_struct_a(telem)
    /\ UNCHANGED telem
    /\ UNCHANGED <<codecVars, bootVars, sessionVars, modeVars>>

\* The query resolves thermopileStructB.
ResolveStructB ==
    /\ tpc \in {"read", "a"}
    /\ tpc' = "b"
    /\ tstruct' = thermopile_struct_b(telem)
    /\ UNCHANGED telem
    /\ UNCHANGED <<codecVars, bootVars, sessionVars, modeVars>>

\* The query is answered.
Answered ==
    /\ tpc \in {"a", "b"}
    /\ tpc' = "idle"
    /\ telem' = DefaultTelemetry
    /\ tstruct' = NoStruct
    /\ UNCHANGED <<codecVars, bootVars, sessionVars, modeVars>>

IrehsNext ==
    \/ tpc = "idle" /\ \E t \in Telemetries : ReadTelemetry(t)
    \/ ResolveStructA
    \/ ResolveStructB
    \/ Answered

\* ----------------------------------------------------------- specifications

Init == CodecInit /\ BootInit /\ SessionInit /\ ModeInit /\ IrehsInit

Next == CodecNext \/ BootNext \/ SessionNext \/ DriverNext \/ ModeNext \/ IrehsNext

\* The stdout message codec alone.
Spec == Init /\ [][CodecNext]_vars

\* The boot variables alone.
BootSpec == Init /\ [][BootNext]_vars

\* The sessions alone.
SessionSpec == Init /\ [][SessionNext]_vars

\* The codec in front of the sessions.
DriverSpec == Init /\ [][DriverNext]_vars

\* Mode::from alone.
ModeSpec == Init /\ [][ModeNext]_vars

\* The thermopile structures alone.
IrehsSpec == Init /\ [][IrehsNext]_vars

\* ------------------------------------------------------------- properties

\* The whole receive path applied to encoded bytes.
Decode(bytes) == from_cbor(parse_message(DeFromSlice(bytes).val).msg)

\* The bytes of a message the sender built can be decoded down to a
\* ChannelMessage.
EnvelopeDecodes ==
    /\ raw.ok
    /\ DeFromSlice(raw.bytes).ok
    /\ parse_message(DeFromSlice(raw.bytes).val).ok

\* C1: a stdout message encoded with a present payload (the empty text
\* included) decodes, through parse_message and from_cbor, to
\* Message::Stdout with the channel id and the text that were encoded.
C1_RoundTripPresent ==
    /\ (cpc = "encoded" /\ sent.data.some) => EnvelopeDecodes
    /\ (cpc = "decoded" /\ origin = "wire" /\ sent.data.some)
           => result = MessageStdout(sent.channel_id, sent.data.s)

C1_Witness ==
    /\ cpc = "decoded"
    /\ origin = "wire"
    /\ sent = [channel_id |-> 65536, data |-> Some(<<>>)]
    /\ result = MessageStdout(65536, <<>>)

\* C2: a stdout message encoded with an absent payload decodes back to the
\* message that was encoded: from_cbor succeeds with a Stdout of the same
\* channel.
C2_RoundTripAbsent ==
    (cpc = "decoded" /\ origin = "wire" /\ ~sent.data.some)
        => /\ result.ok
           /\ result.kind = "Stdout"
           /\ result.channel_id = sent.channel_id

\* C3: for one channel id, decoding to_cbor(channel_id, None) never gives
\* what decoding to_cbor(channel_id, Some("")) gives, and the two encodings
\* differ.
C3_AbsentIsNotEmpty ==
    (cpc = "decoded" /\ origin = "wire" /\ ~sent.data.some)
        => /\ result # Decode(to_cbor(sent.channel_id, Some(<<>>)).bytes)
           /\ raw.bytes # to_cbor(sent.channel_id, Some(<<>>)).bytes

C3_Witness ==
    /\ cpc = "decoded"
    /\ origin = "wire"
    /\ sent = [channel_id |-> 5, data |-> None]
    /\ ~result.ok
    /\ Decode(to_cbor(5, Some(<<>>)).bytes) = MessageStdout(5, <<>>)

\* C4: from_cbor is total: every channel message gives either a Stdout
\* whose channel id and data are the message's own (its first payload
\* element being a text), or a MessageParseError with a non-empty text;
\* nothing is defaulted.
C4_DecodingIsTotal ==
    cpc = "decoded"
        => \/ /\ result.ok
              /\ result.kind = "Stdout"
              /\ Len(parsed.payload) >= 1
              /\ parsed.payload[1].t = "String"
              /\ result.channel_id = parsed.channel_id
              /\ result.data = parsed.payload[1].s
           \/ /\ ~result.ok
              /\ result.kind = "MessageParseError"
              /\ result.err # ""

C4_Witness ==
    /\ cpc = "decoded"
    /\ origin = "channel"
    /\ parsed.payload = <<VBytes(<<97>>)>>
    /\ ~result.ok

\* The three elements to_cbor wrote, as the decoder reads them.
WireIs(third) ==
    /\ raw.ok
    /\ raw.bytes[1] = 131
    /\ DeFromSlice(raw.bytes).ok
    /\ DeFromSlice(raw.bytes).val
           = VArray(<<VU64(sent.channel_id), VString(StdoutName), third>>)

\* C5, as claimed: the encoding is the triple of the channel id, the text
\* "stdout" and the payload, a byte string when present and null when absent.
C5_WirePayloadIsByteString ==
    cpc = "encoded"
        => WireIs(IF sent.data.some THEN VBytes(sent.data.s) ELSE VNull)

\* C5, amended: the encoding is the triple of the channel id, the text
\* "stdout" and the payload, a text string when present and null when absent.
C5_WirePayloadIsTextString ==
    cpc = "encoded"
        => WireIs(IF sent.data.some THEN VString(sent.data.s) ELSE VNull)

C5_Witness ==
    /\ cpc = "encoded"
    /\ sent = [channel_id |-> 13, data |-> Some(HelloWorld)]
    /\ raw.bytes = <<131, 13, 102>> \o StdoutName \o <<107>> \o HelloWorld

\* What from_cbor looked at: the first payload element, if any.
Found(message) ==
    IF message.payload = <<>> THEN [t |-> "Missing", n |-> 0, s |-> <<>>, items |-> <<>>]
    ELSE message.payload[1]

\* C6, as claimed: a rejected message's error text identifies what was
\* found, so two rejected messages with different first payload elements
\* get different texts.
C6_ErrorNamesWhatWasFound ==
    (cpc = "decoded" /\ ~result.ok)
        => \A m \in ChannelMessages :
               (~from_cbor(m).ok /\ Found(m) # Found(parsed))
                   => from_cbor(m).err # result.err

\* C6, amended: a rejected message gets a MessageParseError with the fixed
\* text "No stdout data found", whatever was found.
C6_ErrorIsFixedText ==
    (cpc = "decoded" /\ ~result.ok)
        => result = MessageParseError(NoStdoutData)

C6_Witness ==
    /\ cpc = "decoded"
    /\ origin = "channel"
    /\ parsed.payload = <<VU64(7)>>
    /\ result.err = NoStdoutData
    /\ from_cbor(ChannelMessage(5, StdoutName, <<>>)).err = NoStdoutData

\* C7: to_cbor returns Ok with the encoded bytes for every channel id and
\* every payload, present, empty or absent; an encoder fault is the one
\* thing it turns into an error, MessageCreationError with message "stdout".
C7_CreationNeverFails ==
    /\ cpc = "encoded" => (raw.ok /\ raw.kind = "Ok" /\ raw.bytes # <<>>)
    /\ MapErr([ok |-> FALSE, bytes |-> <<>>]) = MessageCreationError("stdout")

C7_Witness ==
    /\ cpc = "encoded"
    /\ sent = [channel_id |-> 2147483647, data |-> None]
    /\ raw.ok

\* C8: get_u32 returns Some(n) exactly when the variable is defined and its
\* value is the decimal text of a u32 n, and None otherwise, whatever was
\* set before.
C8_GetU32 ==
    bpc = "u32"
        => bresult = IF environ[bname].def /\ IsDecimalU32(environ[bname].s)
                     THEN SomeU32(Canonical(environ[bname].s))
                     ELSE NoStr

\* C9: get_str returns None for an undefined variable and Some(v), with
\* the exact value v, for a defined one (Some("") for the empty value),
\* whatever was set before.
C9_GetStr ==
    bpc = "str"
        => bresult = IF environ[bname].def THEN SomeStr(environ[bname].s) ELSE NoStr

\* C10: Closed is terminal: a step never changes a closed session, and a
\* message injected into one yields ProtocolStateError.
C10_ClosedIsTerminal ==
    [][\A c \in Channels :
           sessions[c].status = "Closed"
               => /\ sessions'[c] = sessions[c]
                  /\ (outcome' # outcome /\ outcome'.channel = c)
                         => outcome'.result = "ProtocolStateError"]_vars

\* An Ack is refused only before the spawn (which leaves no operation) or
\* after the close: this one arrived at a closed shell session.
C10_Witness ==
    /\ sessions[5].status = "Closed"
    /\ sessions[5].op = "shell"
    /\ sessions[5].offset = 1
    /\ outcome = [channel |-> 5, kind |-> "Ack", result |-> "ProtocolStateError"]

C12_ChannelsAreIsolated ==
    [][/\ \A a, b \in Channels :
              a # b => (sessions'[a] = sessions[a] \/ sessions'[b] = sessions[b])
       /\ outcome' # outcome
              => \A c \in Channels \ {outcome'.channel} : sessions'[c] = sessions[c]
       /\ (cpc = "decoded" /\ cpc' = "idle")
              => /\ \A c \in Channels \ {sent.channel_id} : sessions'[c] = sessions[c]
                 /\ (outcome' # outcome \/ sessions' # sessions)
                        => /\ outcome'.channel = sent.channel_id
                           /\ sessions'[sent.channel_id]
                                  = Step(sessions[sent.channel_id],
                                         Msg("Stdout", 0, sent.data.s, 0)).session
       /\ (cpc' = "decoded" /\ result'.ok)
              => /\ result'.channel_id = parsed'.channel_id
                 /\ result'.channel_id = sent'.channel_id]_vars

\* Both sessions running, a one-byte stdout buffered on channel 5, and then
\* an empty stdout delivered on channel 13: channel 5 kept what it had.
C12_Witness ==
    /\ cpc = "idle"
    /\ sessions[5].status = "Running"
    /\ sessions[5].buffer = <<<<97>>>>
    /\ sessions[13].status = "Running"
    /\ sessions[13].buffer = <<<<>>>>
    /\ outcome = [channel |-> 13, kind |-> "Stdout", result |-> "Ok"]

\* The variant declared with discriminant b, Unknown when there is none.
DeclaredFor(b) ==
    IF \E m \in ModeVariants : ModeDiscriminants[m] = b
    THEN CHOOSE m \in ModeVariants : ModeDiscriminants[m] = b
    ELSE "Unknown"

\* C13: Mode::from is total and agrees with the declared discriminants: a
\* byte gives the variant declared with it (0 to 12, and 0xFF for Unknown)
\* and every other byte (13 to 254) gives Unknown; so Mode::from(m as u8) is
\* m for every variant m, and 0 to 12 give thirteen different variants.
C13_ModeFromAgrees ==
    /\ mpc # "none"
           => /\ mmode \in ModeVariants
              /\ mmode = DeclaredFor(mraw)
              /\ mraw \in 13..254 => mmode = "Unknown"
    /\ mpc = "cast" => mmode = mvariant
    /\ Cardinality({ModeFrom(b) : b \in 0..12}) = 13

C13_Witness ==
    /\ mpc = "cast"
    /\ mvariant = "Reserved3"
    /\ mraw = 10
    /\ mmode = "Reserved3"

\* The four sensors of a ThermopileStruct, in the order of their indices.
SensorAt(s, i) == <<s.earth_limb, s.earth_ref, s.space_ref, s.wide_fov>>[i + 1]

\* The solution_degraded indices from which the sensors of a resolved
\* structure take their flags.
FlagIndexOf(which, i) == IF which = "a" THEN i ELSE 4 + i

====
